---- MODULE Spec2Model ----
(***************************************************************************)
(* ParentLink (obsidian-parentlink): the parent-resolution and propagation *)
(* engine of src/src/main.ts, run against a vault of folders and markdown  *)
(* documents.                                                              *)
(*                                                                         *)
(* Spec lets the vault events, the settings tab and the plugin's entry     *)
(* points act on a small family of vaults closed under the events; every   *)
(* handler runs to completion before the next operation starts.            *)
(* SpecUpdate and SpecCascade call updateParentLink and handleFolderRename *)
(* directly on a wider family of vaults, metadata and allow-lists.  A      *)
(* write (processFrontMatter) may throw each time it is invoked.           *)
(* SpecEvents adds the "enabled" toggle to the events.  SpecAsync runs the *)
(* handlers step by step: a handler is suspended at each await, and other  *)
(* handlers and vault events come in between.                              *)
(*                                                                         *)
(* Strings are sequences of tokens.  Every token is one character, except  *)
(* ".md", "[[" and "]]", which are never split by the operations modelled, *)
(* so String.startsWith is the prefix test on token sequences and          *)
(* String.replace('.md', '') removes the first ".md" token.                *)
(***************************************************************************)
EXTENDS Integers, Sequences, FiniteSets, TLC

VARIABLES
  files,      \* document id -> [exists, name, basename, parent]   (TFile)
  folders,    \* folder id   -> [name, parent]                     (TFolder)
  fm,         \* document id -> value of frontmatter.parent
  settings,   \* [enabled, allowedPaths]                           (ParentLinkSettings)
  last,       \* record of the last operation of the plugin that ran: the
              \* calls of updateParentLink, their outcomes and Notices
  tasks,      \* the event handlers in progress, each suspended at an await
  history     \* [serial, failed, modified, events]: the metadata the handlers
              \* started so far leave when each runs to completion before
              \* the next event, whether a write has thrown, and whether a
              \* document was edited outside the plugin

vars == <<files, folders, fm, settings, last, tasks, history>>

----------------------------------------------------------------------------
(* The vault: identities                                                   *)

\* documents, numbered in the order getMarkdownFiles() enumerates them
Docs == {1, 2, 3}
NoDoc == 0

Root == "root"
NoFolder == "none"
Folders == {"F1", "F2"}
AllFolders == Folders \cup {Root}

----------------------------------------------------------------------------
(* Strings                                                                 *)

EmptyStr == <<>>

Lower(tok) == CASE tok = "A" -> "a"
                [] tok = "B" -> "b"
                [] OTHER -> tok

\* String.prototype.toLowerCase
ToLowerCase(s) == [i \in 1..Len(s) |-> Lower(s[i])]

\* a prefix test that stops at path segments
StartsWith_segment(s, p) ==
  /\ Len(p) <= Len(s) /\ SubSeq(s, 1, Len(p)) = p
  /\ (Len(s) = Len(p) \/ s[Len(p) + 1] = "/")

\* String.prototype.startsWith
StartsWith(s, p) == Len(p) <= Len(s) /\ SubSeq(s, 1, Len(p)) = p

\* String.prototype.replace('.md', ''): only the first occurrence goes
ReplaceMd(s) ==
  LET hits == {i \in 1..Len(s) : s[i] = ".md"}
  IN  IF hits = {} THEN s
      ELSE LET i == CHOOSE k \in hits : \A j \in hits : k <= j
           IN  SubSeq(s, 1, i - 1) \o SubSeq(s, i + 1, Len(s))

----------------------------------------------------------------------------
(* The vault: values                                                       *)

\* frontmatter.parent: undefined, or a string
Undefined == [set |-> FALSE, val |-> EmptyStr]
Str(s) == [set |-> TRUE, val |-> s]

\* the vault as the plugin reads it
Vault == [files |-> files, folders |-> folders]

\* TFolder.isRoot
IsRoot(F) == F = Root

\* TAbstractFile.path of a folder; the root's path is ""
RECURSIVE FolderPath(_, _)
FolderPath(v, F) ==
  IF F = Root THEN EmptyStr
  ELSE LET p == v.folders[F].parent
       IN  IF p \in {NoFolder, Root} THEN v.folders[F].name
           ELSE FolderPath(v, p) \o <<"/">> \o v.folders[F].name

\* TAbstractFile.name of a folder; the root's name is ""
FolderName(v, F) == IF F = Root THEN EmptyStr ELSE v.folders[F].name

\* TAbstractFile.parent of a folder
FolderParent(v, F) == IF F = Root THEN NoFolder ELSE v.folders[F].parent

\* TAbstractFile.path of a document
FilePath(v, d) ==
  LET p == v.files[d].parent
  IN  IF p \in {NoFolder, Root} THEN v.files[d].name
      ELSE FolderPath(v, p) \o <<"/">> \o v.files[d].name

\* file.parent?.path, undefined rendered as the value no path equals
ParentPath(v, d) ==
  IF v.files[d].parent = NoFolder THEN <<"undefined">>
  ELSE FolderPath(v, v.files[d].parent)

\* Vault.getMarkdownFiles
GetMarkdownFiles(v) == SelectSeq(<<1, 2, 3>>, LAMBDA d : v.files[d].exists)

\* the find without the test of the containing folder
FindFolderNote_anywhere(v, F, except) ==
  LET all == GetMarkdownFiles(v)
      hits == {i \in 1..Len(all) :
                 /\ v.files[all[i]].basename = FolderName(v, F)
                 /\ all[i] # except}
  IN  IF hits = {} THEN NoDoc
      ELSE all[CHOOSE k \in hits : \A j \in hits : k <= j]

\* Array.prototype.find over getMarkdownFiles(): the first match, or none
FindFolderNote(v, F, except) ==
  LET all == GetMarkdownFiles(v)
      hits == {i \in 1..Len(all) :
                 /\ v.files[all[i]].basename = FolderName(v, F)
                 /\ ParentPath(v, all[i]) = FolderPath(v, F)
                 /\ all[i] # except}
  IN  IF hits = {} THEN NoDoc
      ELSE all[CHOOSE k \in hits : \A j \in hits : k <= j]

----------------------------------------------------------------------------
(* ParentLink.updateParentLink                                             *)

\* file.parent?.path || ''
ParentPathOrEmpty(v, d) ==
  IF v.files[d].parent = NoFolder THEN EmptyStr
  ELSE FolderPath(v, v.files[d].parent)

\* the allowed-paths check left out
IsAllowed_any(v, s, d) == TRUE

\* the allowed-paths check at the head of updateParentLink
IsAllowed(v, s, d) ==
  \/ Len(s.allowedPaths) = 0
  \/ \E i \in 1..Len(s.allowedPaths) :
       \/ StartsWith(FilePath(v, d), s.allowedPaths[i])
       \/ StartsWith(ParentPathOrEmpty(v, d), s.allowedPaths[i])

\* file.basename === file.parent?.name
IsFolderNote(v, d) ==
  /\ v.files[d].parent # NoFolder
  /\ v.files[d].basename = FolderName(v, v.files[d].parent)

\* the case-mismatch test left out
IsCaseMismatch_never(v, d) == FALSE

\* the case-mismatch test of updateParentLink
IsCaseMismatch(v, d) ==
  /\ v.files[d].parent # NoFolder
  /\ ToLowerCase(v.files[d].basename)
       = ToLowerCase(FolderName(v, v.files[d].parent))
  /\ ~IsFolderNote(v, d)

\* the look-up taking the first other document of the folder, whatever its name
ResolveParent_anyName(v, d) ==
  LET parentFolder == v.files[d].parent
      targetFolder == IF parentFolder = NoFolder THEN NoFolder
                      ELSE IF IsFolderNote(v, d)
                        THEN FolderParent(v, parentFolder)
                        ELSE parentFolder
      others == {f \in Docs : /\ v.files[f].exists /\ f # d
                              /\ v.files[f].parent = targetFolder}
  IN  IF parentFolder = NoFolder
        THEN [target |-> NoDoc, reason |-> "no_parent_folder"]
      ELSE IF IsCaseMismatch(v, d)
        THEN [target |-> NoDoc, reason |-> "case_mismatch"]
      ELSE IF targetFolder = NoFolder \/ others = {}
        THEN [target |-> NoDoc, reason |-> "no_match"]
        ELSE [target |-> CHOOSE f \in others : \A g \in others : f <= g,
              reason |-> "found"]

\* the look-up leaving alone a document that holds a parent value already
ResolveParent_unlessLinked(v, d) ==
  LET parentFolder == v.files[d].parent
      grandparentFolder == FolderParent(v, parentFolder)
      parentNote ==
        IF IsFolderNote(v, d)
          THEN IF grandparentFolder # NoFolder
                 THEN FindFolderNote(v, grandparentFolder, d)
                 ELSE NoDoc
          ELSE FindFolderNote(v, parentFolder, d)
  IN  IF parentFolder = NoFolder
        THEN [target |-> NoDoc, reason |-> "no_parent_folder"]
      ELSE IF IsCaseMismatch(v, d)
        THEN [target |-> NoDoc, reason |-> "case_mismatch"]
      ELSE IF parentNote = NoDoc \/ (fm[d].set /\ fm[d].val # EmptyStr)
        THEN [target |-> NoDoc, reason |-> "no_match"]
        ELSE [target |-> parentNote, reason |-> "found"]

\* the parent note updateParentLink looks up, with the reason when none
ResolveParent(v, d) ==
  LET parentFolder == v.files[d].parent
  IN  IF parentFolder = NoFolder
        THEN [target |-> NoDoc, reason |-> "no_parent_folder"]
      ELSE IF IsCaseMismatch(v, d)
        THEN [target |-> NoDoc, reason |-> "case_mismatch"]
      ELSE LET grandparentFolder == FolderParent(v, parentFolder)
               parentNote ==
                 IF IsFolderNote(v, d)
                   THEN IF grandparentFolder # NoFolder
                          THEN FindFolderNote(v, grandparentFolder, d)
                          ELSE NoDoc
                   ELSE FindFolderNote(v, parentFolder, d)
           IN  IF parentNote = NoDoc
                 THEN [target |-> NoDoc, reason |-> "no_match"]
                 ELSE [target |-> parentNote, reason |-> "found"]

\* "[[" + parentNote.name.replace('.md', '') + "]]"
NewParent(v, parentNote) ==
  Str(<<"[[">> \o ReplaceMd(v.files[parentNote].name) \o <<"]]">>)

\* the comparison with the current value left out
NeedsWrite_always(currentParent, newParent) == TRUE

\* currentParent !== newParent
NeedsWrite(currentParent, newParent) == currentParent # newParent

\* the Notices a call shows: none, or the one of its catch block
NoNotice == <<>>
ErrorNotice(v, d) == <<<<"Error updating parent link for ">> \o FilePath(v, d)>>

\* whether the calls went without a failed write
NoError(outcomes) == \A i \in 1..Len(outcomes) : outcomes[i] # "error"

\* updateParentLink emptying the parent field when it finds no parent note
UpdateParentLink_clears(v, s, m, d, throws) ==
  IF ~IsAllowed(v, s, d)
    THEN [fm |-> m, outcome |-> "not_allowed", notice |-> NoNotice]
  ELSE LET r == ResolveParent(v, d)
           newParent == IF r.target = NoDoc THEN Str(EmptyStr)
                                            ELSE NewParent(v, r.target)
       IN  IF ~NeedsWrite(m[d], newParent)
             THEN [fm |-> m, outcome |-> "already", notice |-> NoNotice]
           ELSE IF throws
             THEN [fm |-> m, outcome |-> "error",
                   notice |-> ErrorNotice(v, d)]
             ELSE [fm |-> [m EXCEPT ![d] = newParent], outcome |-> "written",
                   notice |-> NoNotice]

\* updateParentLink deleting the parent field when it finds no parent note
UpdateParentLink_unlinks(v, s, m, d, throws) ==
  IF ~IsAllowed(v, s, d)
    THEN [fm |-> m, outcome |-> "not_allowed", notice |-> NoNotice]
  ELSE LET r == ResolveParent(v, d)
       IN  IF r.target = NoDoc
             THEN [fm |-> [m EXCEPT ![d] = Undefined], outcome |-> r.reason,
                   notice |-> NoNotice]
           ELSE LET newParent == NewParent(v, r.target)
                IN  IF ~NeedsWrite(m[d], newParent)
                      THEN [fm |-> m, outcome |-> "already", notice |-> NoNotice]
                    ELSE IF throws
                      THEN [fm |-> m, outcome |-> "error",
                            notice |-> ErrorNotice(v, d)]
                      ELSE [fm |-> [m EXCEPT ![d] = newParent],
                            outcome |-> "written", notice |-> NoNotice]

\* updateParentLink catching the write's exception without a Notice
UpdateParentLink_silent(v, s, m, d, throws) ==
  IF ~IsAllowed(v, s, d)
    THEN [fm |-> m, outcome |-> "not_allowed", notice |-> NoNotice]
  ELSE LET r == ResolveParent(v, d)
       IN  IF r.target = NoDoc
             THEN [fm |-> m, outcome |-> r.reason, notice |-> NoNotice]
           ELSE LET newParent == NewParent(v, r.target)
                IN  IF ~NeedsWrite(m[d], newParent)
                      THEN [fm |-> m, outcome |-> "already", notice |-> NoNotice]
                    ELSE IF throws
                      THEN [fm |-> m, outcome |-> "error", notice |-> NoNotice]
                      ELSE [fm |-> [m EXCEPT ![d] = newParent],
                            outcome |-> "written", notice |-> NoNotice]

\* One call of updateParentLink(d) on vault v, settings s and metadata m;
\* throws tells whether processFrontMatter, if invoked, throws.  The result
\* is the metadata after the call, what the call did and the Notice shown.
UpdateParentLink(v, s, m, d, throws) ==
  IF ~IsAllowed(v, s, d)
    THEN [fm |-> m, outcome |-> "not_allowed", notice |-> NoNotice]
  ELSE LET r == ResolveParent(v, d)
       IN  IF r.target = NoDoc
             THEN [fm |-> m, outcome |-> r.reason, notice |-> NoNotice]
           ELSE LET newParent == NewParent(v, r.target)
                IN  IF ~NeedsWrite(m[d], newParent)
                      THEN [fm |-> m, outcome |-> "already", notice |-> NoNotice]
                    ELSE IF throws
                      THEN [fm |-> m, outcome |-> "error",
                            notice |-> ErrorNotice(v, d)]
                      ELSE [fm |-> [m EXCEPT ![d] = newParent],
                            outcome |-> "written", notice |-> NoNotice]

\* outcomes in which processFrontMatter was invoked
WriteOutcomes == {"written", "error"}

\* the calls, the first failed write ending the sequence
RECURSIVE RunCalls_abort(_, _, _, _, _)
RunCalls_abort(v, s, acc, calls, i) ==
  IF i > Len(calls) \/ ~NoError(acc.outcomes) THEN {acc}
  ELSE UNION {RunCalls_abort(v, s,
                             [fm |-> r.fm, outcomes |-> Append(acc.outcomes, r.outcome),
                        notices |-> acc.notices \o r.notice],
                             calls, i + 1) :
                r \in {UpdateParentLink(v, s, acc.fm, calls[i], throws) :
                         throws \in BOOLEAN}}

\* A sequence of awaited updateParentLink calls, one after the other, from
\* position i on; acc is the metadata and the outcomes so far.  Each time
\* processFrontMatter is invoked it returns or throws: the result is the set
\* of the runs possible.
RECURSIVE RunCalls(_, _, _, _, _)
RunCalls(v, s, acc, calls, i) ==
  IF i > Len(calls) THEN {acc}
  ELSE UNION {RunCalls(v, s,
                       [fm |-> r.fm, outcomes |-> Append(acc.outcomes, r.outcome),
                        notices |-> acc.notices \o r.notice],
                       calls, i + 1) :
                r \in {UpdateParentLink(v, s, acc.fm, calls[i], throws) :
                         throws \in BOOLEAN}}

\* the runs of the calls, a failed write escaping updateParentLink and ending
\* the handler
RunAll_escapes(v, s, m, calls) ==
  RunCalls_abort(v, s, [fm |-> m, outcomes |-> <<>>, notices |-> <<>>], calls, 1)

\* the runs of the calls from metadata m
RunAll(v, s, m, calls) ==
  RunCalls(v, s, [fm |-> m, outcomes |-> <<>>, notices |-> <<>>], calls, 1)

----------------------------------------------------------------------------
(* ParentLink.handleFolderRename and the event handlers: the calls made    *)

\* filesInFolder testing the folder's path as a prefix, without the "/"
FilesInFolder_noSlash(v, F) ==
  SelectSeq(GetMarkdownFiles(v),
            LAMBDA d : \/ IsRoot(F)
                       \/ StartsWith(FilePath(v, d), FolderPath(v, F)))

\* filesInFolder of handleFolderRename
FilesInFolder(v, F) ==
  SelectSeq(GetMarkdownFiles(v),
            LAMBDA d : \/ IsRoot(F)
                       \/ StartsWith(FilePath(v, d), FolderPath(v, F) \o <<"/">>))

\* the updateParentLink calls of handleFolderRename(F), in order
HandleFolderRenameCalls(v, F) ==
  LET folderNote == IF IsRoot(F) THEN NoDoc ELSE FindFolderNote(v, F, NoDoc)
  IN  FilesInFolder(v, F)
        \o (IF folderNote # NoDoc THEN <<folderNote>> ELSE <<>>)

\* the "create" handler not looking at settings.enabled
OnCreateCalls_always(v, s, d) == <<d>>

\* the "create" handler
OnCreateCalls(v, s, d) == IF s.enabled THEN <<d>> ELSE <<>>

\* the "rename" handler, for a document
OnRenameFileCalls(v, s, d) ==
  IF ~s.enabled THEN <<>>
  ELSE <<d>> \o
       (IF IsFolderNote(v, d)
          THEN SelectSeq(GetMarkdownFiles(v),
                         LAMBDA f : /\ ParentPath(v, f) = ParentPath(v, d)
                                    /\ f # d)
          ELSE <<>>)

\* the "rename" handler, for a folder
OnRenameFolderCalls(v, s, F) ==
  IF ~s.enabled THEN <<>> ELSE HandleFolderRenameCalls(v, F)

\* the "modify" handler not looking at the parent value
OnModifyCalls_anyValue(v, s, m, d) ==
  IF ~s.enabled THEN <<>>
  ELSE IF IsFolderNote(v, d)
         THEN HandleFolderRenameCalls(v, v.files[d].parent)
         ELSE <<>>

\* the "modify" handler
OnModifyCalls(v, s, m, d) ==
  IF ~s.enabled THEN <<>>
  ELSE IF IsFolderNote(v, d) /\ (m[d] = Undefined \/ m[d] = Str(EmptyStr))
         THEN HandleFolderRenameCalls(v, v.files[d].parent)
         ELSE <<>>

----------------------------------------------------------------------------
(* The vaults and settings explored                                        *)

nA == <<"A">>
na == <<"a">>
nAB == <<"A", "B">>
nNote == <<"n">>
nDotted == <<"A", ".md", "B">>

\* The TFile of a markdown file whose name is b + ".md": basename is the name
\* without the extension "md".  (The constructor of the jest mock computes
\* name.replace('.md', '') instead, which is the same on every name that has
\* no ".md" before its extension; the tests set name and basename apart.)
MdFile(b) == [name |-> b \o <<".md">>, basename |-> b]

\* a document or folder of the vault
NoFile == [exists |-> FALSE, name |-> EmptyStr, basename |-> EmptyStr,
           parent |-> NoFolder]
File(b, p) == [exists |-> TRUE, name |-> MdFile(b).name,
               basename |-> MdFile(b).basename, parent |-> p]

\* The vaults a direct call of the plugin is tried on: document 1 is a plain
\* note (or differs from folder "A" by case only), document 2 is named after
\* folder F1, document 3 after folder F2; ".md" occurs inside a name too.
CallBaseNames == <<{nNote, na}, {nA, nDotted}, {nAB}>>
CallParents == <<{NoFolder, "F1", "F2"}, {Root, "F1"}, {"F2"}>>
CallFileChoices(d) ==
  {NoFile} \cup {File(b, p) : b \in CallBaseNames[d], p \in CallParents[d]}
CallFolderChoices(F) ==
  IF F = "F1" THEN [name : {nA, nDotted}, parent : {Root, NoFolder}]
              ELSE [name : {nAB}, parent : {Root, "F1"}]

\* The vaults the vault events move through (closed under the events)
EvBaseNames == <<{nNote}, {nA, nDotted}, {nAB}>>
EvParents == <<{NoFolder, "F1", "F2"}, {"F1"}, {"F2"}>>
EvFileChoices(d) == {File(b, p) : b \in EvBaseNames[d], p \in EvParents[d]}
EvFolderChoices(F) ==
  IF F = "F1" THEN [name : {nA, nDotted}, parent : {Root}]
              ELSE [name : {nAB}, parent : {Root, "F1"}]

\* settings.allowedPaths
AllowedPathsChoices == {<<>>, <<nA>>, <<nAB>>}
EvAllowedPathsChoices == {<<>>, <<nAB>>}

\* frontmatter.parent values found in a vault when the plugin is loaded
StaleLink == Str(<<"[[", "A", "]]">>)
CallFmChoices ==
  [Docs -> {Undefined, StaleLink}] \cup {[d \in Docs |-> Str(EmptyStr)]}

\* values a user gives the parent field by hand
UserValues == {Undefined, Str(EmptyStr)}

\* paths are unique within the tree
UniquePaths(v) ==
  /\ \A d, e \in Docs :
       (d # e /\ v.files[d].exists /\ v.files[e].exists)
         => FilePath(v, d) # FilePath(v, e)
  /\ \A F, G \in Folders : F # G => FolderPath(v, F) # FolderPath(v, G)

NoOp == [op |-> "none", doc |-> NoDoc, folder |-> NoFolder,
         calls |-> <<>>, outcomes |-> <<>>, notices |-> <<>>,
         again |-> FALSE]

\* no handler has started
NoHistory == [serial |-> [d \in Docs |-> Undefined], failed |-> FALSE,
              modified |-> FALSE, events |-> 0]

\* a vault of the event universe, every parent field unset
Init ==
  /\ folders \in [Folders -> UNION {EvFolderChoices(F) : F \in Folders}]
  /\ \A F \in Folders : folders[F] \in EvFolderChoices(F)
  /\ files \in [Docs -> {NoFile} \cup UNION {EvFileChoices(d) : d \in Docs}]
  /\ \A d \in Docs :
       files[d] \in (IF d = 3 THEN {NoFile} ELSE {}) \cup EvFileChoices(d)
  /\ UniquePaths(Vault)
  /\ fm = [d \in Docs |-> Undefined]
  /\ settings \in [enabled : {TRUE}, allowedPaths : EvAllowedPathsChoices]
  /\ last = NoOp
  /\ tasks = <<>>
  /\ history = NoHistory

\* a vault of the call universe
InitCalls ==
  /\ folders \in [Folders -> UNION {CallFolderChoices(F) : F \in Folders}]
  /\ \A F \in Folders : folders[F] \in CallFolderChoices(F)
  /\ files \in [Docs -> UNION {CallFileChoices(d) : d \in Docs}]
  /\ \A d \in Docs : files[d] \in CallFileChoices(d)
  /\ UniquePaths(Vault)
  /\ fm \in CallFmChoices
  /\ settings \in [enabled : {TRUE}, allowedPaths : AllowedPathsChoices]
  /\ last = NoOp
  /\ tasks = <<>>
  /\ history = NoHistory

----------------------------------------------------------------------------
(* Operations                                                              *)

\* The plugin makes the calls on vault v, from metadata m, to completion
Run(op, d, F, v, m, calls) ==
  \E r \in RunAll(v, settings, m, calls) :
    /\ fm' = r.fm
    /\ last' = [op |-> op, doc |-> d, folder |-> F, calls |-> calls,
                outcomes |-> r.outcomes, notices |-> r.notices,
                again |-> /\ op = "updateParentLink"
                          /\ last.op = op /\ last.doc = d
                          /\ NoError(last.outcomes)]
    /\ UNCHANGED <<tasks, history>>

\* plugin.updateParentLink(d)
CallUpdateParentLink(d) ==
  /\ files[d].exists
  /\ Run("updateParentLink", d, NoFolder, Vault, fm, <<d>>)
  /\ UNCHANGED <<files, folders, settings>>

\* plugin.handleFolderRename(F): the settings tab's Refresh button
CallHandleFolderRename(F) ==
  LET calls == HandleFolderRenameCalls(Vault, F)
  IN  /\ Run("handleFolderRename", NoDoc, F, Vault, fm, calls)
      /\ UNCHANGED <<files, folders, settings>>

\* the vault creates a document and fires "create"
VaultCreate(d) ==
  /\ ~files[d].exists
  /\ \E f \in EvFileChoices(d) :
       LET v == [files |-> [files EXCEPT ![d] = f], folders |-> folders]
           calls == OnCreateCalls(v, settings, d)
       IN  /\ UniquePaths(v)
           /\ files' = v.files
           /\ Run("create", d, NoFolder, v, [fm EXCEPT ![d] = Undefined], calls)
  /\ UNCHANGED <<folders, settings>>

\* the vault renames or moves a document and fires "rename"
VaultRenameFile(d) ==
  /\ files[d].exists
  /\ \E f \in EvFileChoices(d) \ {files[d]} :
       LET v == [files |-> [files EXCEPT ![d] = f], folders |-> folders]
           calls == OnRenameFileCalls(v, settings, d)
       IN  /\ UniquePaths(v)
           /\ files' = v.files
           /\ Run("renameFile", d, NoFolder, v, fm, calls)
  /\ UNCHANGED <<folders, settings>>

\* the vault renames or moves a folder and fires "rename"
VaultRenameFolder(F) ==
  /\ \E g \in EvFolderChoices(F) \ {folders[F]} :
       LET v == [files |-> files, folders |-> [folders EXCEPT ![F] = g]]
           calls == OnRenameFolderCalls(v, settings, F)
       IN  /\ UniquePaths(v)
           /\ folders' = v.folders
           /\ Run("renameFolder", NoDoc, F, v, fm, calls)
  /\ UNCHANGED <<files, settings>>

\* a document is edited outside the plugin, its parent field kept, removed
\* or emptied, and the vault fires "modify"
VaultModify(d) ==
  /\ files[d].exists
  /\ \E val \in UserValues \cup {fm[d]} :
       LET m == [fm EXCEPT ![d] = val]
           calls == OnModifyCalls(Vault, settings, m, d)
       IN  Run("modify", d, NoFolder, Vault, m, calls)
  /\ UNCHANGED <<files, folders, settings>>

\* the settings tab: saveAllowedPaths
SaveAllowedPaths ==
  /\ \E a \in EvAllowedPathsChoices \ {settings.allowedPaths} :
       settings' = [settings EXCEPT !.allowedPaths = a]
  /\ last' = NoOp
  /\ UNCHANGED <<files, folders, fm, tasks, history>>

\* the vault events, the settings tab and the plugin's entry points
Next ==
  \/ \E d \in Docs : CallUpdateParentLink(d)
  \/ \E F \in AllFolders : CallHandleFolderRename(F)
  \/ \E d \in Docs : VaultCreate(d)
  \/ \E d \in Docs : VaultRenameFile(d)
  \/ \E F \in Folders : VaultRenameFolder(F)
  \/ \E d \in Docs : VaultModify(d)
  \/ SaveAllowedPaths

Spec == Init /\ [][Next]_vars

\* updateParentLink called directly, on any vault of the call universe
NextUpdate == \E d \in Docs : CallUpdateParentLink(d)

SpecUpdate == InitCalls /\ [][NextUpdate]_vars

\* handleFolderRename called directly, on any vault of the call universe
NextCascade == \E F \in AllFolders : CallHandleFolderRename(F)

SpecCascade == InitCalls /\ [][NextCascade]_vars

\* a vault of the event universe, the plugin enabled or disabled
InitEvents ==
  /\ folders \in [Folders -> UNION {EvFolderChoices(F) : F \in Folders}]
  /\ \A F \in Folders : folders[F] \in EvFolderChoices(F)
  /\ files \in [Docs -> {NoFile} \cup UNION {EvFileChoices(d) : d \in Docs}]
  /\ \A d \in Docs :
       files[d] \in (IF d = 3 THEN {NoFile} ELSE {}) \cup EvFileChoices(d)
  /\ UniquePaths(Vault)
  /\ fm = [d \in Docs |-> Undefined]
  /\ settings \in [enabled : BOOLEAN, allowedPaths : {<<>>}]
  /\ last = NoOp
  /\ tasks = <<>>
  /\ history = NoHistory

\* the settings tab: the "Enable automatic parent linking" toggle
SetEnabled ==
  /\ settings' = [settings EXCEPT !.enabled = ~settings.enabled]
  /\ last' = NoOp
  /\ UNCHANGED <<files, folders, fm, tasks, history>>

\* the vault events, and the toggle
NextEvents ==
  \/ \E d \in Docs : VaultCreate(d)
  \/ \E d \in Docs : VaultRenameFile(d)
  \/ \E F \in Folders : VaultRenameFolder(F)
  \/ \E d \in Docs : VaultModify(d)
  \/ SetEnabled

SpecEvents == InitEvents /\ [][NextEvents]_vars

----------------------------------------------------------------------------
(* The handlers step by step                                               *)

\* what a handler has still to do: a call of updateParentLink, or a look at
\* the tree that decides further calls
UpdateItem(d) == [k |-> "update", d |-> d, F |-> NoFolder]
ChildrenItem(d) == [k |-> "children", d |-> d, F |-> NoFolder]
FolderNoteItem(F) == [k |-> "folderNote", d |-> NoDoc, F |-> F]
UpdateItems(ds) == [i \in 1..Len(ds) |-> UpdateItem(ds[i])]

\* the "create" handler
OnCreateTodo(s, d) == IF s.enabled THEN <<UpdateItem(d)>> ELSE <<>>

\* the "rename" handler, for a document: childFiles is computed after the
\* first await
OnRenameFileTodo(s, d) ==
  IF s.enabled THEN <<UpdateItem(d), ChildrenItem(d)>> ELSE <<>>

\* handleFolderRename(F): filesInFolder is computed before the first await,
\* folderNote after the loop
HandleFolderRenameTodo(v, F) ==
  UpdateItems(FilesInFolder(v, F)) \o <<FolderNoteItem(F)>>

\* the "rename" handler, for a folder
OnRenameFolderTodo(v, s, F) ==
  IF s.enabled THEN HandleFolderRenameTodo(v, F) ELSE <<>>

\* the "modify" handler not looking at the parent value
OnModifyTodo_anyValue(v, s, m, d) ==
  IF s.enabled /\ IsFolderNote(v, d)
    THEN HandleFolderRenameTodo(v, v.files[d].parent)
    ELSE <<>>

\* the "modify" handler
OnModifyTodo(v, s, m, d) ==
  IF /\ s.enabled
     /\ IsFolderNote(v, d) /\ (m[d] = Undefined \/ m[d] = Str(EmptyStr))
    THEN HandleFolderRenameTodo(v, v.files[d].parent)
    ELSE <<>>

\* the look at the tree at the head of todo, replaced by the calls it decides
Expand(v, todo) ==
  IF todo = <<>> THEN <<>>
  ELSE LET h == Head(todo)
       IN  IF h.k = "children"
             THEN (IF IsFolderNote(v, h.d)
                     THEN UpdateItems(
                            SelectSeq(GetMarkdownFiles(v),
                                      LAMBDA f : /\ ParentPath(v, f) = ParentPath(v, h.d)
                                                 /\ f # h.d))
                     ELSE <<>>) \o Tail(todo)
           ELSE IF h.k = "folderNote"
             THEN (IF ~IsRoot(h.F) /\ FindFolderNote(v, h.F, NoDoc) # NoDoc
                     THEN <<UpdateItem(FindFolderNote(v, h.F, NoDoc))>>
                     ELSE <<>>) \o Tail(todo)
           ELSE todo

\* A handler runs on from where it stands to its next await: the call of
\* updateParentLink at the head of todo (called: the document passed)
\* either reaches processFrontMatter (pc "write": the write is invoked with
\* val, not yet applied) or returns before it (pc "ready"); with nothing
\* left the handler is done.
Advance(v, s, m, todo) ==
  CHOOSE a \in UNION {
      IF t = <<>>
        THEN {[todo |-> <<>>, pc |-> "done", val |-> Undefined,
               called |-> <<>>]}
        ELSE {IF r.outcome = "written"
                THEN [todo |-> t, pc |-> "write", val |-> r.fm[Head(t).d],
                      called |-> <<Head(t).d>>]
                ELSE [todo |-> Tail(t), pc |-> "ready", val |-> Undefined,
                      called |-> <<Head(t).d>>] :
              r \in {UpdateParentLink(v, s, m, Head(t).d, FALSE)}} :
      t \in {Expand(v, todo)}} : TRUE

\* the metadata the calls leave, run one after the other without failure
SerialRun(v, s, m, calls) ==
  (CHOOSE r \in RunAll(v, s, m, calls) : NoError(r.outcomes)).fm

\* the handlers that may be in progress at once
MaxTasks == 2

\* the events of the vault that are counted
MaxEvents == 1

\* no handler in this place; a handler in progress is [todo, pc, val] with
\* enum, the documents its todo held at the start, and handled, the
\* documents it has passed to updateParentLink so far
Idle == [todo |-> <<>>, pc |-> "idle", val |-> Undefined,
         enum |-> <<>>, handled |-> <<>>]

\* the documents of the calls listed in todo
Enumerated(todo) ==
  LET ups == SelectSeq(todo, LAMBDA h : h.k = "update")
  IN  [i \in 1..Len(ups) |-> ups[i].d]

\* The vaults of the step-level specification: folder "A" with its folder
\* note, folder "AB" in the root or in "A", its folder note created or not,
\* and a plain note in either folder.
AsyncParents == <<{"F1", "F2"}, {"F1"}, {"F2"}>>
AsyncBaseNames == <<{nNote}, {nA}, {nAB}>>
AsyncFileChoices(d) ==
  {File(b, p) : b \in AsyncBaseNames[d], p \in AsyncParents[d]}
AsyncFolderChoices(F) ==
  IF F = "F1" THEN [name : {nA}, parent : {Root}]
              ELSE [name : {nAB}, parent : {Root, "F1"}]

InitAsync ==
  /\ folders \in [Folders -> UNION {AsyncFolderChoices(F) : F \in Folders}]
  /\ \A F \in Folders : folders[F] \in AsyncFolderChoices(F)
  /\ files \in [Docs -> {NoFile} \cup UNION {AsyncFileChoices(d) : d \in Docs}]
  /\ \A d \in Docs :
       files[d] \in (IF d = 3 THEN {NoFile} ELSE {}) \cup AsyncFileChoices(d)
  /\ fm = [d \in Docs |-> Undefined]
  /\ settings = [enabled |-> TRUE, allowedPaths |-> <<>>]
  /\ last = NoOp
  /\ tasks = [i \in 1..MaxTasks |-> Idle]
  /\ history = NoHistory

\* A handler is called on vault v and metadata m: it runs to its first await
\* and stays suspended there, unless it is done already.  calls are the
\* calls it makes when nothing comes in between, enum the documents it
\* enumerates at its start.
StartHandler(v, m, serial, todo, calls, modify) ==
  LET a == Advance(v, settings, m, todo)
      free == {i \in DOMAIN tasks : tasks[i].pc = "idle"}
      slot == CHOOSE i \in free : \A j \in free : i <= j
  IN  /\ a.pc = "done" \/ free # {}
      /\ fm' = m
      /\ tasks' = IF a.pc = "done" THEN tasks
                  ELSE [tasks EXCEPT ![slot] =
                          [todo |-> a.todo, pc |-> a.pc, val |-> a.val,
                           enum |-> Enumerated(todo), handled |-> a.called]]
      /\ history' = [history EXCEPT
                       !.serial = SerialRun(v, settings, serial, calls),
                       !.modified = @ \/ modify,
                       !.events = IF @ < MaxEvents THEN @ + 1 ELSE @]
      /\ UNCHANGED <<settings, last>>

\* the vault creates a document and fires "create"
AsyncCreate(d) ==
  /\ ~files[d].exists
  /\ \E f \in AsyncFileChoices(d) :
       LET v == [files |-> [files EXCEPT ![d] = f], folders |-> folders]
       IN  /\ files' = v.files
           /\ StartHandler(v, [fm EXCEPT ![d] = Undefined],
                           [history.serial EXCEPT ![d] = Undefined],
                           OnCreateTodo(settings, d),
                           OnCreateCalls(v, settings, d), FALSE)
  /\ UNCHANGED folders

\* the vault moves a document and fires "rename"
AsyncRenameFile(d) ==
  /\ files[d].exists
  /\ \E f \in AsyncFileChoices(d) \ {files[d]} :
       LET v == [files |-> [files EXCEPT ![d] = f], folders |-> folders]
       IN  /\ files' = v.files
           /\ StartHandler(v, fm, history.serial,
                           OnRenameFileTodo(settings, d),
                           OnRenameFileCalls(v, settings, d), FALSE)
  /\ UNCHANGED folders

\* the vault moves a folder and fires "rename"
AsyncRenameFolder(F) ==
  /\ \E g \in AsyncFolderChoices(F) \ {folders[F]} :
       LET v == [files |-> files, folders |-> [folders EXCEPT ![F] = g]]
       IN  /\ folders' = v.folders
           /\ StartHandler(v, fm, history.serial,
                           OnRenameFolderTodo(v, settings, F),
                           OnRenameFolderCalls(v, settings, F), FALSE)
  /\ UNCHANGED files

\* a document is edited outside the plugin and the vault fires "modify"
AsyncModify(d) ==
  /\ files[d].exists
  /\ \E val \in UserValues \cup {fm[d]} :
       LET m == [fm EXCEPT ![d] = val]
           serial == [history.serial EXCEPT ![d] = val]
       IN  StartHandler(Vault, m, serial,
                        OnModifyTodo(Vault, settings, m, d),
                        OnModifyCalls(Vault, settings, serial, d), TRUE)
  /\ UNCHANGED <<files, folders>>

\* processFrontMatter, invoked by handler i, applies the mutation or throws
Land(i) ==
  /\ i \in DOMAIN tasks
  /\ tasks[i].pc = "write"
  /\ \/ /\ fm' = [fm EXCEPT ![Head(tasks[i].todo).d] = tasks[i].val]
        /\ UNCHANGED history
     \/ /\ fm' = fm
        /\ history' = [history EXCEPT !.failed = TRUE]
  /\ tasks' = [tasks EXCEPT ![i].pc = "landed"]
  /\ UNCHANGED <<files, folders, settings, last>>

\* Resume, were updateParentLink called without await: the handler runs on
\* while its write is in flight
Resume_noAwait(i) ==
  /\ i \in DOMAIN tasks
  /\ tasks[i].pc \in {"ready", "landed", "write"}
  /\ \E a \in {Advance(Vault, settings, fm,
                        IF tasks[i].pc = "ready" THEN tasks[i].todo
                                                 ELSE Tail(tasks[i].todo))} :
       tasks' = IF a.pc = "done"
                  THEN [tasks EXCEPT ![i] = Idle]
                  ELSE [tasks EXCEPT ![i] =
                          [todo |-> a.todo, pc |-> a.pc, val |-> a.val,
                           enum |-> tasks[i].enum,
                           handled |-> tasks[i].handled \o a.called]]
  /\ UNCHANGED <<files, folders, fm, settings, last, history>>

\* Resume, were the loop to test settings.enabled before each call
Resume_cancellable(i) ==
  /\ i \in DOMAIN tasks
  /\ tasks[i].pc \in {"ready", "landed"}
  /\ \E a \in {Advance(Vault, settings, fm,
                        IF tasks[i].pc = "landed" THEN Tail(tasks[i].todo)
                                                  ELSE tasks[i].todo)} :
       tasks' = IF a.pc = "done" \/ ~settings.enabled
                  THEN [tasks EXCEPT ![i] = Idle]
                  ELSE [tasks EXCEPT ![i] =
                          [todo |-> a.todo, pc |-> a.pc, val |-> a.val,
                           enum |-> tasks[i].enum,
                           handled |-> tasks[i].handled \o a.called]]
  /\ UNCHANGED <<files, folders, fm, settings, last, history>>

\* handler i is resumed after its await and runs on to the next one
Resume(i) ==
  /\ i \in DOMAIN tasks
  /\ tasks[i].pc \in {"ready", "landed"}
  /\ \E a \in {Advance(Vault, settings, fm,
                        IF tasks[i].pc = "landed" THEN Tail(tasks[i].todo)
                                                  ELSE tasks[i].todo)} :
       tasks' = IF a.pc = "done"
                  THEN [tasks EXCEPT ![i] = Idle]
                  ELSE [tasks EXCEPT ![i] =
                          [todo |-> a.todo, pc |-> a.pc, val |-> a.val,
                           enum |-> tasks[i].enum,
                           handled |-> tasks[i].handled \o a.called]]
  /\ UNCHANGED <<files, folders, fm, settings, last, history>>

\* the creations and renames of the vault, their handlers interleaved at
\* the awaits
NextAsync ==
  \/ \E d \in Docs : AsyncCreate(d)
  \/ \E d \in Docs : AsyncRenameFile(d)
  \/ \E F \in Folders : AsyncRenameFolder(F)
  \/ \E i \in 1..MaxTasks : Land(i)
  \/ \E i \in 1..MaxTasks : Resume(i)

SpecAsync == InitAsync /\ [][NextAsync]_vars

\* the cascades that may be in progress at once
MaxCascades == 1

\* Cascades step by step, with folder renames and the settings tab at work
\* meanwhile.  The event loop runs every continuation that is ready, and a
\* write that was invoked settles: weak fairness on Land and Resume.
InitSteps ==
  /\ folders \in [Folders -> UNION {AsyncFolderChoices(F) : F \in Folders}]
  /\ \A F \in Folders : folders[F] \in AsyncFolderChoices(F)
  /\ files \in [Docs -> {NoFile} \cup UNION {AsyncFileChoices(d) : d \in Docs}]
  /\ \A d \in Docs :
       files[d] \in (IF d = 3 THEN {NoFile} ELSE {}) \cup AsyncFileChoices(d)
  /\ fm = [d \in Docs |-> Undefined]
  /\ settings = [enabled |-> TRUE, allowedPaths |-> <<>>]
  /\ last = NoOp
  /\ tasks = [i \in 1..MaxCascades |-> Idle]
  /\ history = NoHistory

NextSteps ==
  \/ \E F \in Folders : AsyncRenameFolder(F)
  \/ SetEnabled
  \/ SaveAllowedPaths
  \/ \E i \in 1..MaxCascades : Land(i)
  \/ \E i \in 1..MaxCascades : Resume(i)

SpecSteps ==
  /\ InitSteps
  /\ [][NextSteps]_vars
  /\ \A i \in 1..MaxCascades : WF_vars(Land(i)) /\ WF_vars(Resume(i))

\* processFrontMatter, invoked by handler i, applies the mutation or throws,
\* in a vault that fires "modify" for the document written: the "modify"
\* handler is called at once and runs to its first await
LandAndModify(i) ==
  /\ i \in DOMAIN tasks
  /\ tasks[i].pc = "write"
  /\ \/ \E d \in {Head(tasks[i].todo).d} :
        \E m \in {[fm EXCEPT ![d] = tasks[i].val]} :
        \E a \in {Advance(Vault, settings, m,
                            OnModifyTodo(Vault, settings, m, d))} :
          LET landed == [tasks EXCEPT ![i].pc = "landed"]
              free == {j \in DOMAIN tasks : tasks[j].pc = "idle"}
              slot == CHOOSE j \in free : \A k \in free : j <= k
          IN  /\ a.pc = "done" \/ free # {}
              /\ fm' = m
              /\ tasks' = IF a.pc = "done" THEN landed
                          ELSE [landed EXCEPT ![slot] =
                                  [todo |-> a.todo, pc |-> a.pc,
                                   val |-> a.val,
                                   enum |-> Enumerated(
                                     OnModifyTodo(Vault, settings, m, d)),
                                   handled |-> a.called]]
              /\ UNCHANGED history
     \/ /\ fm' = fm
        /\ tasks' = [tasks EXCEPT ![i].pc = "landed"]
        /\ history' = [history EXCEPT !.failed = TRUE]
  /\ UNCHANGED <<files, folders, settings, last>>

\* MaxEvents events of the vault, every write answered by a "modify" event
\* for the document written; continuations run and writes settle as in
\* SpecSteps.
NextFeedback ==
  \/ /\ history.events < MaxEvents
     /\ \E d \in Docs : AsyncCreate(d)
  \/ /\ history.events < MaxEvents
     /\ \E d \in Docs : AsyncRenameFile(d)
  \/ /\ history.events < MaxEvents
     /\ \E F \in Folders : AsyncRenameFolder(F)
  \/ /\ history.events < MaxEvents
     /\ \E d \in Docs : AsyncModify(d)
  \/ \E i \in 1..MaxTasks : LandAndModify(i)
  \/ \E i \in 1..MaxTasks : Resume(i)

SpecFeedback ==
  /\ InitAsync
  /\ [][NextFeedback]_vars
  /\ \A i \in 1..MaxTasks : WF_vars(LandAndModify(i)) /\ WF_vars(Resume(i))

----------------------------------------------------------------------------
(* What the claims speak of                                                *)

\* "[[" + base name + "]]"
Wikilink(b) == Str(<<"[[">> \o b \o <<"]]">>)

\* p is a literal prefix of s
IsPrefix(p, s) == \E k \in 0..Len(s) : SubSeq(s, 1, k) = p

\* d's path, or its containing folder's path, starts with an allow-list entry
UnderAllowedPrefix(d) ==
  \E i \in 1..Len(settings.allowedPaths) :
    \/ IsPrefix(settings.allowedPaths[i], FilePath(Vault, d))
    \/ /\ files[d].parent # NoFolder
       /\ IsPrefix(settings.allowedPaths[i], FolderPath(Vault, files[d].parent))

InScope(d) == settings.allowedPaths = <<>> \/ UnderAllowedPrefix(d)

\* the last operation was the direct call updateParentLink(d)
Updated(d) == last.op = "updateParentLink" /\ last.doc = d

\* the last operation was handleFolderRename(F), called directly
Cascaded(F) == last.op = "handleFolderRename" /\ last.folder = F

\* the documents on which the last operation invoked processFrontMatter
Written == {last.calls[i] : i \in {j \in 1..Len(last.calls) :
                                     last.outcomes[j] \in WriteOutcomes}}

\* the documents for which a write of the last operation failed
Failed == {last.calls[i] : i \in {j \in 1..Len(last.calls) :
                                    last.outcomes[j] = "error"}}

\* F is G or lies below G
RECURSIVE Within(_, _)
Within(F, G) ==
  IF F = NoFolder THEN FALSE
  ELSE IF F = G THEN TRUE
  ELSE IF F = Root THEN FALSE
  ELSE Within(folders[F].parent, G)

\* d lies in the subtree of F (anywhere in the vault when F is the root)
InSubtree(d, F) == files[d].exists /\ (F = Root \/ Within(files[d].parent, F))

----------------------------------------------------------------------------
(* Claims                                                                  *)

\* C1: a second updateParentLink(d) right after a first one, with no write
\* failure and nothing changed in between, changes no metadata and does not
\* invoke processFrontMatter.
C1_Idempotent ==
  [][(last'.op = "updateParentLink" /\ last'.again /\ NoError(last'.outcomes))
       => (fm' = fm /\ last'.outcomes[1] \notin WriteOutcomes)]_vars

\* the second of two calls finds the link the first one wrote
C1_Witness ==
  /\ Updated(1) /\ last.again
  /\ last.outcomes = <<"already">>
  /\ fm[1] = Wikilink(nAB)

\* C2: with a non-empty allow-list that stays as it is, no operation of the
\* plugin changes the parent field of a document that is under no allowed
\* prefix (only the user's own edit of that document does), and a direct
\* updateParentLink on a document under an allowed prefix does what it does
\* with an empty allow-list.
C2_AllowListGating ==
  [][(settings'.allowedPaths # <<>> /\ settings' = settings) =>
       \A d \in Docs :
         /\ (files'[d].exists /\ ~UnderAllowedPrefix(d)')
              => \/ fm'[d] = fm[d]
                 \/ /\ last'.op = "modify" /\ last'.doc = d
                    /\ fm'[d] \in {Undefined, Str(EmptyStr)}
         /\ (Updated(d)' /\ UnderAllowedPrefix(d)' /\ NoError(last'.outcomes))
              => fm' = UpdateParentLink(Vault', [settings EXCEPT !.allowedPaths = <<>>],
                                        fm, d, FALSE).fm]_vars

\* a cascade passes over a document outside the allow-list that has a target
C2_Witness ==
  /\ settings.allowedPaths = <<nAB>>
  /\ last.op = "handleFolderRename"
  /\ \E i \in 1..Len(last.calls) :
       /\ last.outcomes[i] = "not_allowed"
       /\ ResolveParent(Vault, last.calls[i]).target # NoDoc
       /\ fm[last.calls[i]] = Undefined

\* C3: updateParentLink(d), for an in-scope d whose base name differs from
\* its folder's name even ignoring case and whose folder holds another
\* document N named exactly as the folder, leaves d.parent = "[[N.basename]]".
C3_RegularNoteTarget ==
  \A d, N \in Docs :
    ( /\ Updated(d) /\ NoError(last.outcomes) /\ InScope(d)
      /\ files[d].parent # NoFolder
      /\ ToLowerCase(files[d].basename)
           # ToLowerCase(FolderName(Vault, files[d].parent))
      /\ N # d /\ files[N].exists
      /\ files[N].parent = files[d].parent
      /\ files[N].basename = FolderName(Vault, files[d].parent) )
    => fm[d] = Wikilink(files[N].basename)

\* C4: updateParentLink(d), for an in-scope folder note d of F where F's
\* parent folder G holds another document N named exactly as G, leaves
\* d.parent = "[[N.basename]]".
C4_FolderNoteTarget ==
  \A d, N \in Docs :
    ( /\ Updated(d) /\ NoError(last.outcomes) /\ InScope(d)
      /\ files[d].parent \in Folders
      /\ files[d].basename = folders[files[d].parent].name
      /\ folders[files[d].parent].parent # NoFolder
      /\ N # d /\ files[N].exists
      /\ files[N].parent = folders[files[d].parent].parent
      /\ files[N].basename = FolderName(Vault, folders[files[d].parent].parent) )
    => fm[d] = Wikilink(files[N].basename)

\* C5: after handleFolderRename(F) without a write failure, every in-scope
\* document of F's subtree that has a target holds the target's wikilink.
C5_CascadeCoverage ==
  \A F \in AllFolders : \A d \in Docs :
    ( /\ Cascaded(F) /\ NoError(last.outcomes)
      /\ InSubtree(d, F) /\ InScope(d)
      /\ ResolveParent(Vault, d).target # NoDoc )
    => fm[d] = Wikilink(files[ResolveParent(Vault, d).target].basename)

\* C6: a cascade in which writes fail still calls updateParentLink on every
\* document it would have called it on, and every document whose write did
\* not fail ends with the metadata the cascade without failure gives it.
C6_FailureIsolation ==
  [][last'.op = "handleFolderRename" =>
       /\ last'.calls = HandleFolderRenameCalls(Vault, last'.folder)
       /\ Len(last'.outcomes) = Len(last'.calls)
       /\ \A r \in RunAll(Vault, settings, fm, last'.calls) :
            NoError(r.outcomes) =>
              \A d \in Docs : d \notin Failed' => fm'[d] = r.fm[d]]_vars

\* one write of a cascade failed and a later one went through
C6_Witness ==
  /\ last.op = "handleFolderRename"
  /\ \E i, j \in 1..Len(last.calls) :
       /\ i < j
       /\ last.outcomes[i] = "error"
       /\ last.outcomes[j] = "written"
       /\ last.calls[i] # last.calls[j]

\* C7: updateParentLink on a document whose base name equals its folder's
\* name ignoring case, but not exactly, invokes no write and leaves the
\* parent field as it was.
C7_CaseMismatchGuard ==
  [][\A d \in Docs :
       ( /\ Updated(d)'
         /\ files[d].parent # NoFolder
         /\ ToLowerCase(files[d].basename)
              = ToLowerCase(FolderName(Vault, files[d].parent))
         /\ files[d].basename # FolderName(Vault, files[d].parent) )
       => (fm'[d] = fm[d] /\ last'.outcomes[1] \notin WriteOutcomes)]_vars

\* "a.md" in folder "A", next to "A.md", was passed to updateParentLink
C7_Witness ==
  /\ Updated(1) /\ files[1].basename = na
  /\ files[1].parent = "F1" /\ folders["F1"].name = nA
  /\ files[2].exists /\ files[2].parent = "F1" /\ files[2].basename = nA
  /\ settings.allowedPaths = <<>>
  /\ fm[1] = Undefined

\* C8: no operation invokes a write on a document without a containing
\* folder, and none changes its parent field (only the user's own edit does).
C8_RootDocumentsNeverLinked ==
  [][\A d \in Docs :
       (files'[d].exists /\ files'[d].parent = NoFolder)
         => /\ d \notin Written'
            /\ \/ fm'[d] = fm[d]
               \/ /\ last'.op = "modify" /\ last'.doc = d
                  /\ fm'[d] \in {Undefined, Str(EmptyStr)}]_vars

\* a cascade over the whole vault passed over a document without a folder
\* and wrote another document's link
C8_Witness ==
  /\ Cascaded(Root)
  /\ \E i, j \in 1..Len(last.calls) :
       /\ files[last.calls[i]].parent = NoFolder
       /\ last.outcomes[i] = "no_parent_folder"
       /\ last.outcomes[j] = "written"

\* C9: updateParentLink(d) stops at the path filter exactly when the
\* allow-list is non-empty and no entry is a literal prefix of d's path or of
\* its containing folder's path; the prefix knows no segment boundary.
C9_PathFilter ==
  \A d \in Docs :
    Updated(d) => (last.outcomes[1] = "not_allowed" <=> ~InScope(d))

\* with allow-list ["A"], a document under "AB/" was linked
C9_Witness ==
  /\ settings.allowedPaths = <<nA>>
  /\ Updated(1) /\ last.outcomes = <<"written">>
  /\ files[1].parent = "F2" /\ folders["F2"].parent = Root
  /\ FilePath(Vault, 1) = <<"A", "B", "/", "n", ".md">>

\* C10: updateParentLink(d) without a write failure, for an in-scope d with
\* a target T, leaves d.parent = "[[T.basename]]" whatever it was before.
C10_StaleLinkOverwritten ==
  \A d \in Docs :
    ( /\ Updated(d) /\ NoError(last.outcomes) /\ InScope(d)
      /\ ResolveParent(Vault, d).target # NoDoc )
    => fm[d] = Wikilink(files[ResolveParent(Vault, d).target].basename)

\* the folder in which updateParentLink looks for d's parent note: d's own
\* folder, or that folder's parent when d is the folder note
TargetFolder(d) ==
  IF files[d].parent = NoFolder THEN NoFolder
  ELSE IF files[d].basename = FolderName(Vault, files[d].parent)
    THEN FolderParent(Vault, files[d].parent)
    ELSE files[d].parent

\* d has no containing folder, or is named as its folder but for case, or
\* the target folder holds no other document named exactly as it
HasNoTarget(d) ==
  \/ files[d].parent = NoFolder
  \/ /\ ToLowerCase(files[d].basename)
          = ToLowerCase(FolderName(Vault, files[d].parent))
     /\ files[d].basename # FolderName(Vault, files[d].parent)
  \/ TargetFolder(d) = NoFolder
  \/ ~\E N \in Docs :
        /\ N # d /\ files[N].exists
        /\ files[N].parent = TargetFolder(d)
        /\ files[N].basename = FolderName(Vault, TargetFolder(d))

\* the outcomes of updateParentLink that stop before the parent note is used
SkipOutcomes == {"not_allowed", "no_parent_folder", "case_mismatch", "no_match"}

\* C11: updateParentLink(d) on a document for which no target exists (no
\* containing folder, case mismatch, or no folder note in the target folder)
\* stops before the write and changes no document's parent field.
C11_NoTargetNoWrite ==
  [][\A d \in Docs :
       (Updated(d)' /\ HasNoTarget(d))
         => /\ fm' = fm
            /\ last'.outcomes[1] \in SkipOutcomes]_vars

\* a note keeps the link it held, its folder having no folder note
C11_Witness ==
  /\ Updated(1) /\ last.outcomes = <<"no_match">>
  /\ files[1].parent = "F1" /\ HasNoTarget(1)
  /\ \E f \in Docs : f # 1 /\ files[f].exists /\ files[f].parent = "F1"
  /\ fm[1] = StaleLink

\* how many times the last operation called updateParentLink on d
TimesCalled(d) == Cardinality({i \in 1..Len(last.calls) : last.calls[i] = d})

\* C12: one pass of handleFolderRename(F) calls updateParentLink exactly once
\* on every document of F's subtree, F's own folder note included.
C12_ExactlyOnce ==
  \A F \in AllFolders : \A d \in Docs :
    (Cascaded(F) /\ InSubtree(d, F)) => TimesCalled(d) = 1

\* d has a target and holds its wikilink
HasCorrectLink(d) ==
  LET T == ResolveParent(Vault, d).target
  IN  T # NoDoc /\ fm[d] = Wikilink(files[T].basename)

\* every document that has a target holds the target's wikilink
Consistent ==
  \A d \in Docs :
    (files[d].exists /\ ResolveParent(Vault, d).target # NoDoc)
      => HasCorrectLink(d)

\* the folder a rename touches: the folder renamed or moved, or the folder
\* the renamed or moved document now lies in
AffectedFolder ==
  IF last.op = "renameFolder" THEN last.folder
  ELSE IF last.op = "renameFile" THEN files[last.doc].parent
  ELSE NoFolder

\* C13: from a tree where every document that has a target holds its link,
\* a rename or move of a document or folder, handled without a write failure
\* under an empty allow-list, leaves every document of the affected folder's
\* subtree that has a target, nested folder notes included, with its link.
C13_RenameKeepsSubtreeLinked ==
  [][( /\ Consistent
       /\ last'.op \in {"renameFile", "renameFolder"}
       /\ settings'.enabled /\ settings'.allowedPaths = <<>>
       /\ NoError(last'.outcomes) )
       => \A d \in Docs :
            ( /\ AffectedFolder' # NoFolder
              /\ InSubtree(d, AffectedFolder)'
              /\ ResolveParent(Vault, d)'.target # NoDoc )
            => HasCorrectLink(d)']_vars

\* the operations that are the handling of a vault event
EventOps == {"create", "renameFile", "renameFolder", "modify"}

\* C14: while settings.enabled is false, the handling of a create, rename or
\* modify event calls updateParentLink on no document, and the only parent
\* field that differs afterwards is the one the event itself brought: unset
\* on the created document, the user's value on the modified one.
C14_DisabledDoesNothing ==
  [][(~settings.enabled /\ last'.op \in EventOps)
       => /\ last'.calls = <<>>
          /\ \A d \in Docs :
               \/ fm'[d] = fm[d]
               \/ /\ last'.doc = d /\ last'.op = "create"
                  /\ fm'[d] = Undefined
               \/ /\ last'.doc = d /\ last'.op = "modify"
                  /\ fm'[d] \in UserValues]_vars

\* disabled, a folder was renamed over a document that lacks its link
C14_Witness ==
  /\ ~settings.enabled
  /\ last.op = "renameFolder" /\ last.calls = <<>>
  /\ \E d \in Docs :
       /\ InSubtree(d, last.folder)
       /\ ResolveParent(Vault, d).target # NoDoc
       /\ ~HasCorrectLink(d)

\* the handlers whose call of processFrontMatter on d was made and has
\* neither applied its mutation nor thrown yet
InFlight(d) ==
  {i \in 1..Len(tasks) : tasks[i].pc = "write" /\ Head(tasks[i].todo).d = d}

\* C15: in every state, handlers interleaved at their awaits or not, at most
\* one write is in flight for any one document.
C15_OneWriteInFlight == \A d \in Docs : Cardinality(InFlight(d)) <= 1

\* C16: the handlers of creations and renames, interleaved at their awaits
\* or not, once all have completed with no write failed, leave every
\* document's parent field as they leave it when each runs to completion
\* before the next event.
C16_InterleavingEqualsSerial ==
  ((\A i \in 1..Len(tasks) : tasks[i].pc = "idle")
     /\ ~history.failed /\ ~history.modified)
    => fm = history.serial

\* the calls the handler of event l makes on vault v, nothing failing,
\* given the metadata m the event left
EventCalls(v, s, l, m) ==
  IF l.op = "create" THEN OnCreateCalls(v, s, l.doc)
  ELSE IF l.op = "renameFile" THEN OnRenameFileCalls(v, s, l.doc)
  ELSE IF l.op = "renameFolder" THEN OnRenameFolderCalls(v, s, l.folder)
  ELSE OnModifyCalls(v, s, m, l.doc)

\* C17: whatever writes fail, the handler of a create, rename or modify
\* event makes every call of updateParentLink it makes when nothing fails,
\* and each call returns: a failure ends neither the call's handler nor the
\* calls that follow.
C17_HandlersRunToCompletion ==
  [][last'.op \in EventOps
       => /\ Len(last'.outcomes) = Len(last'.calls)
          /\ \E val \in UserValues \cup {fm[d] : d \in Docs} :
               last'.calls =
                 EventCalls(Vault', settings', last',
                            IF last'.op = "modify"
                              THEN [fm EXCEPT ![last'.doc] = val]
                              ELSE fm)]_vars

\* the handler of an event went on after a failed write and wrote another
\* document's link
C17_Witness ==
  /\ last.op \in EventOps
  /\ \E i, j \in 1..Len(last.calls) :
       /\ i < j
       /\ last.outcomes[i] = "error"
       /\ last.outcomes[j] = "written"

\* C18: a write that fails changes no metadata, and the call of
\* updateParentLink(d) that follows a failed one on the same tree invokes the
\* write again and, when it goes through, leaves d with the wikilink of its
\* target.
C18_FailedWriteRetried ==
  [][\A d \in Docs :
       Updated(d)' =>
         /\ last'.outcomes = <<"error">> => fm' = fm
         /\ (Updated(d) /\ last.outcomes = <<"error">>) =>
              /\ last'.outcomes[1] \in WriteOutcomes
              /\ last'.outcomes[1] = "written" =>
                   fm'[d] = Wikilink(files[ResolveParent(Vault, d).target].basename)]_vars

\* C19: every value an operation of the plugin writes to a document's parent
\* field is "[[" + T.basename + "]]", T the document's target and T.basename
\* T's file name without its final extension, also when the name holds
\* ".md" before that extension.
C19_WrittenValueIsWikilink ==
  \A i \in 1..Len(last.calls) :
    last.outcomes[i] = "written" =>
      LET T == ResolveParent(Vault, last.calls[i]).target
      IN  T # NoDoc /\ fm[last.calls[i]] = Wikilink(files[T].basename)

\* C20: a note d of folder F was skipped for want of a folder note; F's
\* folder note is then created and the create handler completes, the plugin
\* enabled, d in scope and no write failing: d holds the wikilink of the
\* new folder note.
C20_CreatedFolderNoteLinksSiblings ==
  [][\A d, N \in Docs :
       ( /\ last'.op = "create" /\ last'.doc = N
         /\ settings'.enabled /\ NoError(last'.outcomes)
         /\ d # N /\ files[d].exists
         /\ files[d].parent \in Folders
         /\ ResolveParent(Vault, d).reason = "no_match"
         /\ ~IsFolderNote(Vault, d)
         /\ files'[N].parent = files[d].parent
         /\ IsFolderNote(Vault', N)
         /\ InScope(d)' )
       => fm'[d] = Wikilink(files'[N].basename)]_vars

\* the outcomes of updateParentLink that tell a parent note was found
FoundOutcomes == {"already", "written", "error"}

RECURSIVE FailureNotices(_)
FailureNotices(i) ==
  IF i > Len(last.calls) THEN <<>>
  ELSE (IF last.outcomes[i] = "error"
          THEN <<<<"Error updating parent link for ">>
                   \o FilePath(Vault, last.calls[i])>>
          ELSE <<>>) \o FailureNotices(i + 1)

\* C22: the Notices the calls of updateParentLink show are, in order, one
\* for each failed write, naming the path of the document whose write
\* failed; a call that skips or writes shows none.
C22_OneNoticePerFailedWrite ==
  Len(last.outcomes) = Len(last.calls) => last.notices = FailureNotices(1)

\* two writes of one operation failed, on two documents, and another call
\* found no parent note
C22_Witness ==
  /\ Len(last.notices) = 2 /\ last.notices[1] # last.notices[2]
  /\ \E i \in 1..Len(last.calls) : last.outcomes[i] = "no_match"

\* in vault v, d's path starts with the path of F and "/"
UnderFolderPath(v, d, F) ==
  \E k \in 0..Len(FilePath(v, d)) :
    SubSeq(FilePath(v, d), 1, k) = FolderPath(v, F) \o <<"/">>

\* C23: handleFolderRename(F), F not the root, called directly or by the
\* rename handler, leaves the parent field of every document whose path
\* does not start with F's path and "/" as it was, also in a folder whose
\* name extends F's name; and updateParentLink and handleFolderRename
\* change no document's or folder's name or place.
C23_CascadeStaysInFolder ==
  [][/\ (last'.op \in {"handleFolderRename", "renameFolder"}
           /\ last'.folder \in Folders)
          => \A d \in Docs :
               (files'[d].exists /\ ~UnderFolderPath(Vault', d, last'.folder))
                 => (fm'[d] = fm[d] /\ d \notin Written')
     /\ last'.op \in {"handleFolderRename", "updateParentLink"}
          => UNCHANGED <<files, folders>>]_vars

\* a cascade on folder "A" passed by a note of folder "AB" that lacks its link
C23_Witness ==
  /\ Cascaded("F1") /\ Len(last.calls) > 0
  /\ FolderPath(Vault, "F1") = nA /\ FolderPath(Vault, "F2") = nAB
  /\ files[1].parent = "F2"
  /\ ResolveParent(Vault, 1).target = 3
  /\ fm[1] = Undefined

\* a parent value that is absent or the empty string
IsEmptyValue(val) == ~val.set \/ val.val = EmptyStr

Docs_of(seq) == {seq[k] : k \in 1..Len(seq)}

\* handler i has passed to updateParentLink the documents it enumerated at
\* its start, in their order, before any other
InEnumOrder(t) ==
  \A k \in 1..Len(t.handled) : k <= Len(t.enum) => t.handled[k] = t.enum[k]

\* C25: within one cascade the documents are handled in the order of the
\* enumeration made at its start, one at a time: the next document is passed
\* to updateParentLink only once the write for the one before has completed
\* or failed.
C25_InOrderOneAtATime ==
  [][\A i \in DOMAIN tasks :
       /\ InEnumOrder(tasks[i]')
       /\ (tasks[i].pc # "idle" /\ tasks[i]'.pc # "idle")
            => tasks[i]'.enum = tasks[i].enum
       /\ tasks[i].pc = "write"
            => /\ tasks[i]'.handled = tasks[i].handled
               /\ tasks[i]'.todo = tasks[i].todo
               /\ tasks[i]'.pc \in {"write", "landed"}
       /\ (/\ tasks[i].pc # "idle" /\ tasks[i]'.pc # "idle"
           /\ tasks[i]'.handled # tasks[i].handled)
            => /\ tasks[i].pc \in {"ready", "landed"}
               /\ Len(tasks[i]'.handled) = Len(tasks[i].handled) + 1]_vars

\* a cascade over two documents has written the first and is at the second
C25_Witness ==
  \E i \in DOMAIN tasks :
    /\ Len(tasks[i].enum) >= 2
    /\ tasks[i].handled = SubSeq(tasks[i].enum, 1, 2)
    /\ tasks[i].pc = "write"
    /\ fm[tasks[i].enum[1]] \notin {Undefined, Str(EmptyStr)}

\* C26: a cascade that has begun passes every document enumerated at its
\* start to updateParentLink and terminates, whatever happens to
\* settings.enabled and the allow-list and whichever events arrive
\* meanwhile.
C26_CascadeRunsToEnd ==
  /\ [][\A i \in 1..MaxCascades :
         (tasks[i].pc # "idle" /\ tasks[i]'.pc = "idle")
           => Docs_of(tasks[i].enum) \subseteq Docs_of(tasks[i].handled)]_vars
  /\ \A i \in 1..MaxCascades : (tasks[i].pc # "idle") ~> (tasks[i].pc = "idle")

\* a cascade over two documents has passed both to updateParentLink, with
\* the plugin disabled and the allow-list edited since it began
C26_Witness ==
  \E i \in DOMAIN tasks :
    /\ Len(tasks[i].enum) >= 2
    /\ Docs_of(tasks[i].enum) \subseteq Docs_of(tasks[i].handled)
    /\ ~settings.enabled
    /\ settings.allowedPaths # <<>>

\* C27: when every write raises a "modify" event for the document written,
\* the handler of that event starts nothing, and after the events of the
\* vault have come to an end every handler ends and no write follows: there
\* is no loop of write, modify, write.
C27_WriteFeedbackQuiesces ==
  /\ [][\A i \in DOMAIN tasks :
         (tasks[i].pc = "write" /\ tasks[i]'.pc = "landed")
           => \A j \in DOMAIN tasks \ {i} : tasks[j]' = tasks[j]]_vars
  /\ <>[](\A i \in DOMAIN tasks : tasks[i].pc = "idle")

\* the write of a folder note's parent field has been applied, and the
\* "modify" event it raised has been handled
C27_Witness ==
  \E i \in DOMAIN tasks :
    /\ tasks[i].pc = "landed"
    /\ IsFolderNote(Vault, Head(tasks[i].todo).d)
    /\ fm[Head(tasks[i].todo).d] = tasks[i].val
    /\ history.events = MaxEvents

\* C28: a parent field that holds a value other than the empty string holds
\* one after every step of the plugin, whether the document still has a
\* target or not; only the user's own edit of the document takes it away.
C28_ParentNeverRemoved ==
  [][\A d \in Docs :
       (~IsEmptyValue(fm[d]) /\ ~(last'.op = "modify" /\ last'.doc = d))
         => ~IsEmptyValue(fm'[d])]_vars

\* a document holding a link was moved to where it has no target, and the
\* rename handler called updateParentLink on it
C28_Witness ==
  \E d \in Docs :
    /\ last.op \in {"renameFile", "renameFolder"}
    /\ \E i \in 1..Len(last.calls) : last.calls[i] = d
    /\ files[d].exists /\ HasNoTarget(d)
    /\ ~IsEmptyValue(fm[d])

\* the calls of the last operation that wrote
WrittenCalls == {i \in 1..Len(last.calls) : last.outcomes[i] = "written"}

\* C29: whenever updateParentLink(d) writes, the document it links to is
\* another document than d, named exactly as the folder that holds it, and
\* that folder is d's containing folder, or the parent of d's containing
\* folder when d is itself a folder note.
C29_TargetIsFolderNote ==
  \A i \in WrittenCalls :
    LET d == last.calls[i]
        T == ResolveParent(Vault, d).target
    IN  /\ T \in Docs \ {d}
        /\ files[T].exists
        /\ files[T].parent # NoFolder
        /\ files[T].basename = FolderName(Vault, files[T].parent)
        /\ files[T].parent =
             (IF files[d].basename = FolderName(Vault, files[d].parent)
                THEN FolderParent(Vault, files[d].parent)
                ELSE files[d].parent)

\* a folder note was linked to the note of the folder above
C29_Witness ==
  \E i \in WrittenCalls :
    /\ IsFolderNote(Vault, last.calls[i])
    /\ ~IsEmptyValue(fm[last.calls[i]])

====
